---- MODULE Spec2Model ----
(***************************************************************************)
(* Binary-search-tree programs of the repository:                          *)
(*   tree/binarySeachTree.py        class BinaryTree                       *)
(*   CSE373prac/binarysearchTree.py class BST                              *)
(*   tree/deleteFromBST.py          class TreeNode with delete_child       *)
(*   tree/isBalancedBT.py           TreeNode.add_child, isBalanced         *)
(*   tree/SerializeDeserializeBT.py serialize, deserialize                 *)
(*   tree/inorderTravarsal.py       BinarySearchTreeNode.add_child, inorder*)
(*   tree/LCAofBST.py               lowestCommonAncestor                   *)
(*   tree/isValidBST.py             TreeNode.add_child, isValid            *)
(*   tree/BFS.py                    TreeNode.level_order_traversal         *)
(*   tree/diameterOFBT.py           diameter_of_tree                       *)
(*   tree/goodNodesBT.py            goodNode                               *)
(*   tree/isSame.py                 isSameTree                             *)
(*   tree/subtreeOfAnotherTree.py   isSameTree, is_subtree                 *)
(*   tree/binaryTreeRightSideView.py rightSideView                         *)
(*   tree/preorderTraversal.py      TreeNode.preorder                      *)
(*   tree/BT_from_inroder_preorder_traversal.py buildTree, printTree       *)
(*   tree/kthSmallestElementBST.py  kThSmallest                            *)
(*                                                                         *)
(* A tree object is the empty tuple (Python None) or <<data, left, right>>.*)
(* Keys are Python ints.  A Python method that mutates self and may raise  *)
(* is an operator returning [obj, ret, raised]: obj is the state of the    *)
(* self object when the call ends, ret the value returned, raised whether  *)
(* the call ended by an exception.                                         *)
(***************************************************************************)
EXTENDS Integers, Sequences, FiniteSets, TLC

VARIABLES cls, tree, prev, op, arg, err, ndel, text, pos, out

vars == <<cls, tree, prev, op, arg, err, ndel, text, pos, out>>

(* ------------------------------ bounds --------------------------------- *)
\* keys are drawn from -MaxAbsKey .. MaxAbsKey
MaxAbsKey == 2
Keys == (0 - MaxAbsKey)..MaxAbsKey

\* an insertion is taken only while the tree has fewer than MaxNodes nodes
MaxNodes == 5

\* a wider run of the BinaryTree program draws its keys from -WideNeg .. 0
WideNeg == 5
WideKeys == (0 - WideNeg)..0

\* insert_data(arr) draws the elements of arr from 1 .. MaxKey
MaxKey == 5
BuildKeys == 1..MaxKey

\* arbitrary binary trees have at most MaxShape nodes and keys of ShapeKeys
MaxShape == 3
BigKey == 10
ShapeKeys == {0 - (BigKey + 2), -1, 0, 7, BigKey}

\* a script calls the traversals at most MaxCalls times
MaxCalls == 2

\* tree shapes, whatever their keys, have at most MaxDeep nodes
MaxDeep == 7

\* token strings given to deserialize have at most MaxText characters
MaxText == 5
Alphabet == {"N", ",", "-", "0", "1", "x", " ", "\t"}

(* ------------------------------ tree objects --------------------------- *)
Nil == <<>>

\* BinaryTree.__init__ / BST.__init__ / TreeNode.__init__
NewNode(data) == <<data, Nil, Nil>>

\* Python truth value of an int, as tested by `if self.data:`
Truthy(x) == x # 0

RECURSIVE Size(_)
Size(t) == IF t = Nil THEN 0 ELSE 1 + Size(t[2]) + Size(t[3])

RECURSIVE KeysOf(_)
KeysOf(t) == IF t = Nil THEN {} ELSE {t[1]} \cup KeysOf(t[2]) \cup KeysOf(t[3])

\* the BST order invariant of the data model: left keys < key < right keys
RECURSIVE BSTOrder(_)
BSTOrder(t) ==
    IF t = Nil THEN TRUE
    ELSE /\ \A k \in KeysOf(t[2]) : k < t[1]
         /\ \A k \in KeysOf(t[3]) : k > t[1]
         /\ BSTOrder(t[2])
         /\ BSTOrder(t[3])

(* ------------------------- tree/binarySeachTree.py --------------------- *)
RECURSIVE insertData(_, _)
insertData(self, data) ==
    IF Truthy(self[1])
    THEN IF data < self[1]
         THEN IF self[2] = Nil
              THEN <<self[1], NewNode(data), self[3]>>
              ELSE <<self[1], insertData(self[2], data), self[3]>>
         ELSE IF data > self[1]
         THEN IF self[3] = Nil
              THEN <<self[1], self[2], NewNode(data)>>
              ELSE <<self[1], self[2], insertData(self[3], data)>>
         ELSE self
    ELSE <<data, self[2], self[3]>>

RECURSIVE inorder_traversal(_)
inorder_traversal(root) ==
    IF root # Nil
    THEN (inorder_traversal(root[2]) \o <<root[1]>>) \o inorder_traversal(root[3])
    ELSE <<>>

\* postorder_traversal appending root.data before the right subtree
RECURSIVE postorder_traversal_root_early(_)
postorder_traversal_root_early(root) ==
    IF root # Nil
    THEN (postorder_traversal_root_early(root[2]) \o <<root[1]>>)
            \o postorder_traversal_root_early(root[3])
    ELSE <<>>

RECURSIVE preorder_traversal(_)
preorder_traversal(root) ==
    IF root # Nil
    THEN (<<root[1]>> \o preorder_traversal(root[2])) \o preorder_traversal(root[3])
    ELSE <<>>

RECURSIVE postorder_traversal(_)
postorder_traversal(root) ==
    IF root # Nil
    THEN (postorder_traversal(root[2]) \o postorder_traversal(root[3])) \o <<root[1]>>
    ELSE <<>>

RECURSIVE find_min(_)
find_min(self) == IF self[2] = Nil THEN self[1] ELSE find_min(self[2])

RECURSIVE find_max(_)
find_max(self) == IF self[3] = Nil THEN self[1] ELSE find_max(self[3])

Returned(o, r) == [obj |-> o, ret |-> r, raised |-> FALSE]
Raised(o) == [obj |-> o, ret |-> Nil, raised |-> TRUE]

\* delete_value with the one-child cases returning the absent side
RECURSIVE delete_value_wrong_child(_, _)
delete_value_wrong_child(self, value) ==
    IF value < self[1]
    THEN IF self[2] = Nil
         THEN Raised(self)
         ELSE LET r == delete_value_wrong_child(self[2], value) IN
              IF r.raised
              THEN Raised(<<self[1], r.obj, self[3]>>)
              ELSE Returned(<<self[1], r.ret, self[3]>>, <<self[1], r.ret, self[3]>>)
    ELSE IF value > self[1]
    THEN IF self[3] = Nil
         THEN Raised(self)
         ELSE LET r == delete_value_wrong_child(self[3], value) IN
              IF r.raised
              THEN Raised(<<self[1], self[2], r.obj>>)
              ELSE Returned(<<self[1], self[2], r.ret>>, <<self[1], self[2], r.ret>>)
    ELSE IF self[2] = Nil /\ self[3] = Nil
         THEN Returned(self, Nil)
         ELSE IF self[2] = Nil
         THEN Returned(self, self[2])
         ELSE IF self[3] = Nil
         THEN Returned(self, self[3])
         ELSE LET min_val == find_min(self[3])
                  r == delete_value_wrong_child(self[3], min_val)
              IN  IF r.raised
                  THEN Raised(<<min_val, self[2], r.obj>>)
                  ELSE Returned(<<min_val, self[2], r.ret>>, <<min_val, self[2], r.ret>>)

RECURSIVE delete_value(_, _)
delete_value(self, value) ==
    IF value < self[1]
    THEN IF self[2] = Nil
         THEN Raised(self)
         ELSE LET r == delete_value(self[2], value) IN
              IF r.raised
              THEN Raised(<<self[1], r.obj, self[3]>>)
              ELSE Returned(<<self[1], r.ret, self[3]>>, <<self[1], r.ret, self[3]>>)
    ELSE IF value > self[1]
    THEN IF self[3] = Nil
         THEN Raised(self)
         ELSE LET r == delete_value(self[3], value) IN
              IF r.raised
              THEN Raised(<<self[1], self[2], r.obj>>)
              ELSE Returned(<<self[1], self[2], r.ret>>, <<self[1], self[2], r.ret>>)
    ELSE IF self[2] = Nil /\ self[3] = Nil
         THEN Returned(self, Nil)
         ELSE IF self[2] = Nil
         THEN Returned(self, self[3])
         ELSE IF self[3] = Nil
         THEN Returned(self, self[2])
         ELSE LET min_val == find_min(self[3])
                  r == delete_value(self[3], min_val)
              IN  IF r.raised
                  THEN Raised(<<min_val, self[2], r.obj>>)
                  ELSE Returned(<<min_val, self[2], r.ret>>, <<min_val, self[2], r.ret>>)

\* find_value, lines 53-66: the value of the recursive call is dropped, so a
\* call that descends returns None.  Python True / False / None are the
\* strings "True" / "False" / "None".
find_value(self, val) ==
    IF self[1] = val
    THEN "True"
    ELSE IF val < self[1]
    THEN IF self[2] = Nil THEN "False" ELSE "None"
    ELSE IF self[3] = Nil THEN "False" ELSE "None"

(* --------------------- CSE373prac/binarysearchTree.py ------------------ *)
RECURSIVE insertVal(_, _)
insertVal(self, data) ==
    IF Truthy(self[1])
    THEN IF data < self[1]
         THEN IF self[2] = Nil
              THEN <<self[1], NewNode(data), self[3]>>
              ELSE <<self[1], insertVal(self[2], data), self[3]>>
         ELSE IF data > self[1]
         THEN IF self[3] = Nil
              THEN <<self[1], self[2], NewNode(data)>>
              ELSE <<self[1], self[2], insertVal(self[3], data)>>
         ELSE self
    ELSE <<data, self[2], self[3]>>

\* findValue, lines 32-45: as find_value, with elif
findValue(self, val) ==
    IF self[1] = val
    THEN "True"
    ELSE IF val < self[1]
    THEN IF self[2] = Nil THEN "False" ELSE "None"
    ELSE IF self[3] = Nil THEN "False" ELSE "None"

(* --------------------------- tree/deleteFromBST.py --------------------- *)
\* `if self.left:` tests an object without __bool__/__len__: true unless None
RECURSIVE add_child(_, _)
add_child(self, data) ==
    IF data = self[1]
    THEN self
    ELSE IF data < self[1]
    THEN IF self[2] # Nil
         THEN <<self[1], add_child(self[2], data), self[3]>>
         ELSE <<self[1], NewNode(data), self[3]>>
    ELSE IF self[3] # Nil
         THEN <<self[1], self[2], add_child(self[3], data)>>
         ELSE <<self[1], self[2], NewNode(data)>>

\* lines 30-41: the else-branch of `if data > self.data` and the final return
RECURSIVE delete_child(_, _)
delete_child_else(self, data) ==
    IF self[2] = Nil /\ self[3] = Nil
    THEN Returned(self, Nil)
    ELSE IF self[2] = Nil
    THEN Returned(self, self[3])
    ELSE IF self[3] = Nil
    THEN Returned(self, self[3])
    ELSE LET val == find_min(self[3])
             r == delete_child(self[3], data)
         IN  IF r.raised
             THEN Raised(<<val, self[2], r.obj>>)
             ELSE Returned(<<val, self[2], r.ret>>, <<val, self[2], r.ret>>)

\* lines 28-41: the second `if`, entered with self as the first `if` left it
delete_child_tail(self, data) ==
    IF data > self[1]
    THEN IF self[3] = Nil
         THEN Raised(self)
         ELSE LET r == delete_child(self[3], data) IN
              IF r.raised
              THEN Raised(<<self[1], self[2], r.obj>>)
              ELSE Returned(<<self[1], self[2], r.ret>>, <<self[1], self[2], r.ret>>)
    ELSE delete_child_else(self, data)

delete_child(self, data) ==
    IF data < self[1]
    THEN IF self[2] = Nil
         THEN Raised(self)
         ELSE LET r == delete_child(self[2], data) IN
              IF r.raised
              THEN Raised(<<self[1], r.obj, self[3]>>)
              ELSE delete_child_tail(<<self[1], r.ret, self[3]>>, data)
    ELSE delete_child_tail(self, data)

(* ---------------------------- tree/isBalancedBT.py --------------------- *)
\* Python None is Nil; a key is an integer.  `data == None` of line 8: an
\* integer and the empty tuple are told apart by their printed forms.
IsNone(data) == ToString(data) = ToString(Nil)

\* add_child putting the new node above the node where the walk ends
RECURSIVE TreeNode_add_child_above(_, _)
TreeNode_add_child_above(self, data) ==
    IF IsNone(data) \/ data = self[1]
    THEN self
    ELSE IF data < self[1]
    THEN IF self[2] # Nil
         THEN <<self[1], TreeNode_add_child_above(self[2], data), self[3]>>
         ELSE <<data, Nil, self>>
    ELSE IF self[3] # Nil
         THEN <<self[1], self[2], TreeNode_add_child_above(self[3], data)>>
         ELSE <<data, self, Nil>>

\* add_child without the duplicate test: an equal key goes to the right
RECURSIVE TreeNode_add_child_dup(_, _)
TreeNode_add_child_dup(self, data) ==
    IF IsNone(data)
    THEN self
    ELSE IF data < self[1]
    THEN IF self[2] # Nil
         THEN <<self[1], TreeNode_add_child_dup(self[2], data), self[3]>>
         ELSE <<self[1], NewNode(data), self[3]>>
    ELSE IF self[3] # Nil
         THEN <<self[1], self[2], TreeNode_add_child_dup(self[3], data)>>
         ELSE <<self[1], self[2], NewNode(data)>>

\* TreeNode.add_child, lines 7-19.  Line 8 returns at once for a key equal to
\* the node's or for None; for None `data == self.data` is false (the keys
\* stored are integers: arr[0] is one), so testing None first gives the same
\* result.
RECURSIVE TreeNode_add_child(_, _)
TreeNode_add_child(self, data) ==
    IF IsNone(data) \/ data = self[1]
    THEN self
    ELSE IF data < self[1]
    THEN IF self[2] # Nil
         THEN <<self[1], TreeNode_add_child(self[2], data), self[3]>>
         ELSE <<self[1], NewNode(data), self[3]>>
    ELSE IF self[3] # Nil
         THEN <<self[1], self[2], TreeNode_add_child(self[3], data)>>
         ELSE <<self[1], self[2], NewNode(data)>>

Abs(x) == IF x < 0 THEN 0 - x ELSE x
Max(a, b) == IF a >= b THEN a ELSE b

\* dfs whose diff forgets what the two subtrees reported
RECURSIVE isBalanced_dfs_own_only(_)
isBalanced_dfs_own_only(curr) ==
    IF curr = Nil
    THEN <<TRUE, 0>>
    ELSE LET left_depth == isBalanced_dfs_own_only(curr[2])
             right_depth == isBalanced_dfs_own_only(curr[3])
             diff == Abs(left_depth[2] - right_depth[2]) <= 1
         IN  <<diff, Max(left_depth[2], right_depth[2]) + 1>>

\* dfs(curr) returns [diff, depth] as <<diff, depth>>
RECURSIVE isBalanced_dfs(_)
isBalanced_dfs(curr) ==
    IF curr = Nil
    THEN <<TRUE, 0>>
    ELSE LET left_depth == isBalanced_dfs(curr[2])
             right_depth == isBalanced_dfs(curr[3])
             diff == /\ left_depth[1]
                     /\ right_depth[1]
                     /\ Abs(left_depth[2] - right_depth[2]) <= 1
         IN  <<diff, Max(left_depth[2], right_depth[2]) + 1>>

isBalanced(root) == isBalanced_dfs(root)[1]

(* --------------------------- tree/inorderTravarsal.py ------------------ *)
\* add_child without the duplicate test: an equal key goes to the right
RECURSIVE BinarySearchTreeNode_add_child_dup(_, _)
BinarySearchTreeNode_add_child_dup(self, data) ==
    IF data < self[1]
    THEN IF self[2] # Nil
         THEN <<self[1], BinarySearchTreeNode_add_child_dup(self[2], data), self[3]>>
         ELSE <<self[1], NewNode(data), self[3]>>
    ELSE IF self[3] # Nil
         THEN <<self[1], self[2], BinarySearchTreeNode_add_child_dup(self[3], data)>>
         ELSE <<self[1], self[2], NewNode(data)>>

RECURSIVE BinarySearchTreeNode_add_child(_, _)
BinarySearchTreeNode_add_child(self, data) ==
    IF data = self[1]
    THEN self
    ELSE IF data < self[1]
    THEN IF self[2] # Nil
         THEN <<self[1], BinarySearchTreeNode_add_child(self[2], data), self[3]>>
         ELSE <<self[1], NewNode(data), self[3]>>
    ELSE IF self[3] # Nil
         THEN <<self[1], self[2], BinarySearchTreeNode_add_child(self[3], data)>>
         ELSE <<self[1], self[2], NewNode(data)>>

RECURSIVE inorder(_)
inorder(self) ==
    ((IF self[2] # Nil THEN inorder(self[2]) ELSE <<>>) \o <<self[1]>>)
        \o (IF self[3] # Nil THEN inorder(self[3]) ELSE <<>>)

(* ------------------------------ tree/LCAofBST.py ----------------------- *)
Min(a, b) == IF a <= b THEN a ELSE b

\* the value returned, or the exception raised
Value(v) == [ret |-> v, err |-> "none"]
Error(e) == [ret |-> Nil, err |-> e]

\* lowestCommonAncestor descending left also when the larger key equals root.data
RECURSIVE lowestCommonAncestor_le(_, _, _)
lowestCommonAncestor_le(root, p, q) ==
    IF root = Nil /\ p = Nil /\ q = Nil
    THEN Value(Nil)
    ELSE IF p = Nil \/ q = Nil \/ root = Nil
    THEN Error("AttributeError")
    ELSE IF Max(p[1], q[1]) <= root[1]
    THEN lowestCommonAncestor_le(root[2], p, q)
    ELSE IF Min(p[1], q[1]) > root[1]
    THEN lowestCommonAncestor_le(root[3], p, q)
    ELSE Value(root[1])

\* p and q are node objects; `not x` of a node object is x is None;
\* p.data, q.data, root.data of None raise AttributeError
RECURSIVE lowestCommonAncestor(_, _, _)
lowestCommonAncestor(root, p, q) ==
    IF root = Nil /\ p = Nil /\ q = Nil
    THEN Value(Nil)
    ELSE IF p = Nil \/ q = Nil \/ root = Nil
    THEN Error("AttributeError")
    ELSE IF Max(p[1], q[1]) < root[1]
    THEN lowestCommonAncestor(root[2], p, q)
    ELSE IF Min(p[1], q[1]) > root[1]
    THEN lowestCommonAncestor(root[3], p, q)
    ELSE Value(root[1])

(* ------------------------------ tree/isValidBST.py --------------------- *)
\* add_child of this file sends the larger keys to the left
RECURSIVE isValidBST_add_child(_, _)
isValidBST_add_child(self, data) ==
    IF data = self[1] THEN self
    ELSE IF data > self[1]
    THEN IF self[2] # Nil
         THEN <<self[1], isValidBST_add_child(self[2], data), self[3]>>
         ELSE <<self[1], NewNode(data), self[3]>>
    ELSE IF self[3] # Nil
         THEN <<self[1], self[2], isValidBST_add_child(self[3], data)>>
         ELSE <<self[1], self[2], NewNode(data)>>

\* a bound is float('-inf') or float('inf'), written <<>>, or a key k, written <<k>>
Above(data, left) == left = <<>> \/ data > left[1]
Below(data, right) == right = <<>> \/ data < right[1]

\* node.left of None raises AttributeError; `a and b` evaluates b only when a is true
RECURSIVE valid(_, _, _)
valid(node, left, right) ==
    IF node = Nil
    THEN Error("AttributeError")
    ELSE IF node[2] = Nil /\ node[3] = Nil
    THEN Value(TRUE)
    ELSE IF ~(Above(node[1], left) /\ Below(node[1], right))
    THEN Value(FALSE)
    ELSE LET l == valid(node[2], left, <<node[1]>>) IN
         IF l.err # "none" \/ ~l.ret THEN l
         ELSE valid(node[3], <<node[1]>>, right)

isValid(self) == valid(self, <<>>, <<>>)

(* ------------------------------ tree/BFS.py ---------------------------- *)
\* elements[level] of Python is elements[level + 1] here; called with ([], 0),
\* every call finds level <= len(elements)
RECURSIVE level_order_traversal(_, _, _)
level_order_traversal(self, elements, level) ==
    LET grown == IF Len(elements) <= level THEN Append(elements, <<>>)
                 ELSE elements
        own == IF Truthy(self[1])
               THEN [grown EXCEPT ![level + 1] = Append(@, self[1])]
               ELSE grown
        lft == IF self[2] # Nil
               THEN level_order_traversal(self[2], own, level + 1)
               ELSE own
    IN  IF self[3] # Nil
        THEN level_order_traversal(self[3], lft, level + 1)
        ELSE lft

(* ---------------------------- tree/diameterOFBT.py --------------------- *)
\* dfs assigning res = left_depth + right_depth, so that the last node
\* visited, the root, decides
RECURSIVE diameter_dfs_last_wins(_, _)
diameter_dfs_last_wins(curr, res) ==
    IF curr = Nil
    THEN <<0, res>>
    ELSE LET left_depth == diameter_dfs_last_wins(curr[2], res)
             right_depth == diameter_dfs_last_wins(curr[3], left_depth[2])
         IN  <<Max(left_depth[1], right_depth[1]) + 1,
               left_depth[1] + right_depth[1]>>

\* dfs(curr) with the nonlocal res threaded through: <<depth returned, res>>
RECURSIVE diameter_dfs(_, _)
diameter_dfs(curr, res) ==
    IF curr = Nil
    THEN <<0, res>>
    ELSE LET left_depth == diameter_dfs(curr[2], res)
             right_depth == diameter_dfs(curr[3], left_depth[2])
         IN  <<Max(left_depth[1], right_depth[1]) + 1,
               Max(right_depth[2], left_depth[1] + right_depth[1])>>

diameter_of_tree(root) == diameter_dfs(root, 0)[2]

(* ---------------------------- tree/goodNodesBT.py ---------------------- *)
\* dfs handing its children curr.data, not the running maximum
RECURSIVE goodNode_dfs_parent_only(_, _)
goodNode_dfs_parent_only(curr, maxVal) ==
    IF curr = Nil
    THEN 0
    ELSE (IF curr[1] >= maxVal THEN 1 ELSE 0)
            + goodNode_dfs_parent_only(curr[2], curr[1])
            + goodNode_dfs_parent_only(curr[3], curr[1])

\* dfs that keeps comparing with the maxVal it was first given
RECURSIVE goodNode_dfs_stale_max(_, _)
goodNode_dfs_stale_max(curr, maxVal) ==
    IF curr = Nil
    THEN 0
    ELSE (IF curr[1] >= maxVal THEN 1 ELSE 0)
            + goodNode_dfs_stale_max(curr[2], maxVal)
            + goodNode_dfs_stale_max(curr[3], maxVal)

RECURSIVE goodNode_dfs(_, _)
goodNode_dfs(curr, maxVal) ==
    IF curr = Nil
    THEN 0
    ELSE (IF curr[1] >= maxVal THEN 1 ELSE 0)
            + goodNode_dfs(curr[2], Max(curr[1], maxVal))
            + goodNode_dfs(curr[3], Max(curr[1], maxVal))

\* root.data of None raises AttributeError
goodNode(root) ==
    IF root = Nil THEN Error("AttributeError")
    ELSE Value(goodNode_dfs(root, root[1]))

(* ------------- tree/isSame.py, tree/subtreeOfAnotherTree.py ------------ *)
\* isSameTree accepting q as soon as q has run out
RECURSIVE isSameTree_prefix(_, _)
isSameTree_prefix(p, q) ==
    IF q = Nil
    THEN TRUE
    ELSE IF p # Nil /\ q # Nil /\ p[1] = q[1]
    THEN isSameTree_prefix(p[2], q[2]) /\ isSameTree_prefix(p[3], q[3])
    ELSE FALSE

\* the same text in both files
RECURSIVE isSameTree(_, _)
isSameTree(p, q) ==
    IF p = Nil /\ q = Nil
    THEN TRUE
    ELSE IF p # Nil /\ q # Nil /\ p[1] = q[1]
    THEN isSameTree(p[2], q[2]) /\ isSameTree(p[3], q[3])
    ELSE FALSE

RECURSIVE is_subtree(_, _)
is_subtree(root, subroot) ==
    IF subroot = Nil THEN TRUE
    ELSE IF root = Nil THEN FALSE
    ELSE IF isSameTree(root, subroot) THEN TRUE
    ELSE is_subtree(root[2], subroot) \/ is_subtree(root[3], subroot)

(* ----------------------- tree/binaryTreeRightSideView.py --------------- *)
\* the walk visiting left before right
RECURSIVE rightSideView_res_left_first(_, _, _)
rightSideView_res_left_first(root, res, level) ==
    IF root = Nil
    THEN res
    ELSE LET own == IF Len(res) = level THEN Append(res, root[1]) ELSE res
             lft == rightSideView_res_left_first(root[2], own, level + 1)
         IN  rightSideView_res_left_first(root[3], lft, level + 1)

\* the list res when rightSideView(root, res, level) ends
RECURSIVE rightSideView_res(_, _, _)
rightSideView_res(root, res, level) ==
    IF root = Nil
    THEN res
    ELSE LET own == IF Len(res) = level THEN Append(res, root[1]) ELSE res
             rgt == rightSideView_res(root[3], own, level + 1)
         IN  rightSideView_res(root[2], rgt, level + 1)

\* the value returned: [] for no root, else the list res
rightSideView(root, res, level) ==
    IF root = Nil THEN <<>> ELSE rightSideView_res(root, res, level)

(* --------------------------- tree/preorderTraversal.py ----------------- *)
\* preorder appending self.data after the two subtrees
RECURSIVE preorder_self_last(_)
preorder_self_last(self) ==
    ((IF self[2] # Nil THEN preorder_self_last(self[2]) ELSE <<>>)
        \o (IF self[3] # Nil THEN preorder_self_last(self[3]) ELSE <<>>))
        \o <<self[1]>>

RECURSIVE preorder(_)
preorder(self) ==
    (<<self[1]>> \o (IF self[2] # Nil THEN preorder(self[2]) ELSE <<>>))
        \o (IF self[3] # Nil THEN preorder(self[3]) ELSE <<>>)

(* ----------------- tree/BT_from_inroder_preorder_traversal.py ---------- *)
\* indices = {val: idx for idx, val in enumerate(inorder)}: the last index of
\* each value, counted from 0
indices(ino) ==
    [val \in { ino[i] : i \in 1..Len(ino) } |->
        (CHOOSE i \in 1..Len(ino) :
            /\ ino[i] = val
            /\ \A j \in (i + 1)..Len(ino) : ino[j] # val) - 1]

Built(n, i) == [ret |-> n, pre_idx |-> i, err |-> "none"]
Failed(e, i) == [ret |-> Nil, pre_idx |-> i, err |-> e]

\* dfs building root.right before root.left
RECURSIVE buildTree_dfs_right_first(_, _, _, _, _)
buildTree_dfs_right_first(pre, idx, l, r, pre_idx) ==
    IF l > r
    THEN Built(Nil, pre_idx)
    ELSE IF pre_idx >= Len(pre)
    THEN Failed("IndexError", pre_idx)
    ELSE LET val == pre[pre_idx + 1] IN
         IF val \notin DOMAIN idx
         THEN Failed("KeyError", pre_idx + 1)
         ELSE LET mid == idx[val]
                  rgt == buildTree_dfs_right_first(pre, idx, mid + 1, r, pre_idx + 1)
              IN  IF rgt.err # "none" THEN rgt
                  ELSE LET lft == buildTree_dfs_right_first(pre, idx, l, mid - 1, rgt.pre_idx)
                       IN  IF lft.err # "none" THEN lft
                           ELSE Built(<<val, lft.ret, rgt.ret>>, lft.pre_idx)

\* dfs(l, r, indices) with the nonlocal pre_idx threaded through;
\* preorder[pre_idx] past the end raises IndexError, indices[val] of a value
\* not in inorder raises KeyError
RECURSIVE buildTree_dfs(_, _, _, _, _)
buildTree_dfs(pre, idx, l, r, pre_idx) ==
    IF l > r
    THEN Built(Nil, pre_idx)
    ELSE IF pre_idx >= Len(pre)
    THEN Failed("IndexError", pre_idx)
    ELSE LET val == pre[pre_idx + 1] IN
         IF val \notin DOMAIN idx
         THEN Failed("KeyError", pre_idx + 1)
         ELSE LET mid == idx[val]
                  lft == buildTree_dfs(pre, idx, l, mid - 1, pre_idx + 1)
              IN  IF lft.err # "none" THEN lft
                  ELSE LET rgt == buildTree_dfs(pre, idx, mid + 1, r, lft.pre_idx)
                       IN  IF rgt.err # "none" THEN rgt
                           ELSE Built(<<val, lft.ret, rgt.ret>>, rgt.pre_idx)

buildTree(pre, ino) ==
    buildTree_dfs(pre, indices(ino), 0, Len(ino) - 1, 0)

\* printTree(root): the keys left-self-right, [] for None
RECURSIVE printTree(_)
printTree(root) ==
    IF root = Nil THEN <<>>
    ELSE (printTree(root[2]) \o <<root[1]>>) \o printTree(root[3])

(* ------------------------- tree/kthSmallestElementBST.py --------------- *)
\* the list data when dfs(root) ends
RECURSIVE kThSmallest_dfs(_)
kThSmallest_dfs(root) ==
    IF root = Nil THEN <<>>
    ELSE (kThSmallest_dfs(root[2]) \o <<root[1]>>) \o kThSmallest_dfs(root[3])

\* kThSmallest returning data[k]
kThSmallest_off_by_one(root, k) ==
    LET data == kThSmallest_dfs(root) IN
    IF k >= Len(data) \/ k < 0 - Len(data) THEN Error("IndexError")
    ELSE IF k < 0 THEN Value(data[Len(data) + k + 1])
    ELSE Value(data[k + 1])

\* data[k-1]: a negative index counts from the end, an index outside
\* -len(data) .. len(data)-1 raises IndexError
kThSmallest(root, k) ==
    LET data == kThSmallest_dfs(root) IN
    IF k - 1 >= Len(data) \/ k - 1 < 0 - Len(data) THEN Error("IndexError")
    ELSE IF k - 1 < 0 THEN Value(data[Len(data) + k])
    ELSE Value(data[k])

(* ----------------------- tree/SerializeDeserializeBT.py ---------------- *)
\* A Python str is a sequence of one-character strings.
DigitChars == <<"0", "1", "2", "3", "4", "5", "6", "7", "8", "9">>
IsDigit(c) == \E d \in 1..Len(DigitChars) : DigitChars[d] = c
DigitValue(c) == (CHOOSE d \in 1..Len(DigitChars) : DigitChars[d] = c) - 1

\* str(n) of an int
RECURSIVE StrNat(_)
StrNat(n) == IF n < Len(DigitChars)
             THEN <<DigitChars[n + 1]>>
             ELSE StrNat(n \div Len(DigitChars)) \o <<DigitChars[(n % Len(DigitChars)) + 1]>>
str(n) == IF n < 0 THEN <<"-">> \o StrNat(0 - n) ELSE StrNat(n)

\* sep.join(parts)
RECURSIVE Join(_, _)
Join(parts, sep) ==
    IF Len(parts) = 0 THEN <<>>
    ELSE IF Len(parts) = 1 THEN parts[1]
    ELSE (parts[1] \o sep) \o Join(Tail(parts), sep)

\* s.split(sep) for a one-character sep: always at least one field
RECURSIVE Split(_, _)
Split(s, sep) ==
    IF \A j \in 1..Len(s) : s[j] # sep
    THEN <<s>>
    ELSE LET j == CHOOSE x \in 1..Len(s) : s[x] = sep /\ \A y \in 1..(x - 1) : s[y] # sep
         IN  <<SubSeq(s, 1, j - 1)>> \o Split(SubSeq(s, j + 1, Len(s)), sep)

\* the ASCII characters int(s) skips at both ends of s: space, tab, newline,
\* vertical tab, form feed, carriage return.  The texts of the model are
\* ASCII; the vertical tab has no escape and stands in the string as itself.
Whitespace == {" ", "\t", "\n", "", "\f", "\r"}

\* int(s): surrounding white space stripped, an optional sign, then decimal
\* digits that single underscores may separate
RECURSIVE Strip(_)
Strip(s) ==
    IF Len(s) > 0 /\ s[1] \in Whitespace THEN Strip(Tail(s))
    ELSE IF Len(s) > 0 /\ s[Len(s)] \in Whitespace THEN Strip(SubSeq(s, 1, Len(s) - 1))
    ELSE s

Unsigned(s) == IF Len(s) > 0 /\ s[1] \in {"-", "+"} THEN Tail(s) ELSE s

IsDigits(s) ==
    /\ Len(s) > 0
    /\ IsDigit(s[1])
    /\ IsDigit(s[Len(s)])
    /\ \A j \in 1..Len(s) : IsDigit(s[j]) \/ (s[j] = "_" /\ s[j - 1] # "_")

IsIntLiteral(s) == IsDigits(Unsigned(Strip(s)))

RECURSIVE DigitsValue(_)
DigitsValue(s) ==
    IF Len(s) = 0 THEN 0
    ELSE IF s[Len(s)] = "_" THEN DigitsValue(SubSeq(s, 1, Len(s) - 1))
    ELSE DigitsValue(SubSeq(s, 1, Len(s) - 1)) * Len(DigitChars) + DigitValue(s[Len(s)])

int(s) == LET t == Strip(s) IN
           IF Len(t) > 0 /\ t[1] = "-" THEN 0 - DigitsValue(Tail(t))
           ELSE DigitsValue(Unsigned(t))

\* dfs writing one sentinel, not two, below a node without children
RECURSIVE serialize_dfs_one_sentinel(_)
serialize_dfs_one_sentinel(node) ==
    IF node = Nil
    THEN << <<"N">> >>
    ELSE IF node[2] = Nil /\ node[3] = Nil
    THEN <<str(node[1]), <<"N">> >>
    ELSE (<<str(node[1])>> \o serialize_dfs_one_sentinel(node[2]))
            \o serialize_dfs_one_sentinel(node[3])

\* serialize: dfs appends to result, lines 23-29
RECURSIVE serialize_dfs(_)
serialize_dfs(node) ==
    IF node = Nil
    THEN << <<"N">> >>
    ELSE (<<str(node[1])>> \o serialize_dfs(node[2])) \o serialize_dfs(node[3])

serialize(root) == Join(serialize_dfs(root), <<",">>)

\* deserialize: dfs reads values[i] and advances the nonlocal i, lines 36-45;
\* the result is the node built, the value of i, and the exception raised
Parsed(n, i, e) == [node |-> n, i |-> i, err |-> e]

\* deserialize whose dfs fills node.right before node.left
RECURSIVE deserialize_dfs_right_first(_, _)
deserialize_dfs_right_first(values, i) ==
    IF i >= Len(values)
    THEN Parsed(Nil, i, "IndexError")
    ELSE IF values[i + 1] = <<"N">>
    THEN Parsed(Nil, i + 1, "none")
    ELSE IF ~IsIntLiteral(values[i + 1])
    THEN Parsed(Nil, i, "ValueError")
    ELSE LET r == deserialize_dfs_right_first(values, i + 1) IN
         IF r.err # "none"
         THEN Parsed(Nil, r.i, r.err)
         ELSE LET l == deserialize_dfs_right_first(values, r.i) IN
              IF l.err # "none"
              THEN Parsed(Nil, l.i, l.err)
              ELSE Parsed(<<int(values[i + 1]), l.node, r.node>>, l.i, "none")

RECURSIVE deserialize_dfs(_, _)
deserialize_dfs(values, i) ==
    IF i >= Len(values)
    THEN Parsed(Nil, i, "IndexError")
    ELSE IF values[i + 1] = <<"N">>
    THEN Parsed(Nil, i + 1, "none")
    ELSE IF ~IsIntLiteral(values[i + 1])
    THEN Parsed(Nil, i, "ValueError")
    ELSE LET l == deserialize_dfs(values, i + 1) IN
         IF l.err # "none"
         THEN Parsed(Nil, l.i, l.err)
         ELSE LET r == deserialize_dfs(values, l.i) IN
              IF r.err # "none"
              THEN Parsed(Nil, r.i, r.err)
              ELSE Parsed(<<int(values[i + 1]), l.node, r.node>>, r.i, "none")

deserialize(data) == deserialize_dfs(Split(data, ","), 0)


(* ------------------------------ the programs --------------------------- *)
\* root = BinaryTree(k) | b = BST(k) | root = insert_data([k])
Init ==
    /\ cls \in {"BinaryTree", "BST", "TreeNode"}
    /\ \E k \in Keys : /\ tree = NewNode(k)
                       /\ arg = k
    /\ prev = Nil
    /\ op = "init"
    /\ err = "none"
    /\ ndel = 0
    /\ text = <<>>
    /\ pos = 0
    /\ out = Nil

\* a call can be made while the root object exists and no exception ended the script
Live == tree # Nil /\ err = "none"

NoCodec == UNCHANGED <<text, pos, out>>

InsertData(k) ==
    /\ cls = "BinaryTree" /\ Live
    /\ Size(tree) < MaxNodes
    /\ tree' = insertData(tree, k)
    /\ prev' = tree /\ op' = "insertData" /\ arg' = k
    /\ UNCHANGED <<cls, err, ndel>> /\ NoCodec

InsertVal(k) ==
    /\ cls = "BST" /\ Live
    /\ Size(tree) < MaxNodes
    /\ tree' = insertVal(tree, k)
    /\ prev' = tree /\ op' = "insertVal" /\ arg' = k
    /\ UNCHANGED <<cls, err, ndel>> /\ NoCodec

AddChild(k) ==
    /\ cls = "TreeNode" /\ Live
    /\ Size(tree) < MaxNodes
    /\ tree' = add_child(tree, k)
    /\ prev' = tree /\ op' = "add_child" /\ arg' = k
    /\ UNCHANGED <<cls, err, ndel>> /\ NoCodec

\* root.delete_value(k), line 122: the statement drops the value the call
\* returns, so `root` stays bound to the object the call was made on, as the
\* call left it; out is the returned root (None when the call raised).  An
\* AttributeError ends the script.
DeleteValue(k) ==
    /\ cls = "BinaryTree" /\ Live
    /\ LET r == delete_value(tree, k) IN
         /\ tree' = r.obj
         /\ out' = r.ret
         /\ err' = IF r.raised THEN "AttributeError" ELSE "none"
    /\ prev' = tree /\ op' = "delete_value" /\ arg' = k
    /\ ndel' = IF ndel < 2 THEN ndel + 1 ELSE ndel
    /\ UNCHANGED <<cls, text, pos>>

\* print(build_tree.delete_child(k)), line 51: the returned root is printed,
\* not bound; build_tree stays the object the call was made on
DeleteChild(k) ==
    /\ cls = "TreeNode" /\ Live
    /\ LET r == delete_child(tree, k) IN
         /\ tree' = r.obj
         /\ out' = r.ret
         /\ err' = IF r.raised THEN "AttributeError" ELSE "none"
    /\ prev' = tree /\ op' = "delete_child" /\ arg' = k
    /\ ndel' = IF ndel < 2 THEN ndel + 1 ELSE ndel
    /\ UNCHANGED <<cls, text, pos>>

Next ==
    \/ \E k \in Keys : InsertData(k)
    \/ \E k \in Keys : InsertVal(k)
    \/ \E k \in Keys : AddChild(k)
    \/ \E k \in Keys : DeleteValue(k)
    \/ \E k \in Keys : DeleteChild(k)

Spec == Init /\ [][Next]_vars

\* the BinaryTree program alone, over the wider key range
InitWide ==
    /\ cls = "BinaryTree"
    /\ \E k \in WideKeys : /\ tree = NewNode(k)
                           /\ arg = k
    /\ prev = Nil
    /\ op = "init"
    /\ err = "none"
    /\ ndel = 0
    /\ text = <<>>
    /\ pos = 0
    /\ out = Nil

NextWide ==
    \/ \E k \in WideKeys : InsertData(k)
    \/ \E k \in WideKeys : DeleteValue(k)

SpecWide == InitWide /\ [][NextWide]_vars

(* ------------------ insert_data(arr) of tree/isBalancedBT.py ----------- *)
\* root = TreeNode(arr[0])
InitBuild ==
    /\ cls = "insert_data"
    /\ \E k \in BuildKeys : /\ tree = NewNode(k)
                            /\ arg = k
    /\ prev = Nil
    /\ op = "init"
    /\ err = "none"
    /\ ndel = 0
    /\ text = <<>>
    /\ pos = 0
    /\ out = Nil

\* one pass of `for val in arr[1:]: root.add_child(val)`; val is an integer
\* or None, as in data = [1,None,2,None,3] of line 41
InsertDataStep(val) ==
    /\ cls = "insert_data"
    /\ Size(tree) < MaxNodes
    /\ tree' = TreeNode_add_child(tree, val)
    /\ prev' = tree /\ op' = "add_child" /\ arg' = val
    /\ UNCHANGED <<cls, err, ndel>> /\ NoCodec

NextBuild ==
    \/ \E val \in BuildKeys : InsertDataStep(val)
    \/ InsertDataStep(Nil)

SpecBuild == InitBuild /\ [][NextBuild]_vars

(* ------------- serialize / deserialize of any binary tree -------------- *)
RECURSIVE TreesOfSize(_)
TreesOfSize(n) ==
    IF n = 0 THEN {Nil}
    ELSE UNION { { <<k, l, r>> : k \in ShapeKeys,
                                 l \in TreesOfSize(m),
                                 r \in TreesOfSize(n - 1 - m) } : m \in 0..(n - 1) }

AllTrees == UNION { TreesOfSize(n) : n \in 0..MaxShape }

RECURSIVE TextsOfLen(_)
TextsOfLen(n) ==
    IF n = 0 THEN {<<>>}
    ELSE { <<c>> \o t : c \in Alphabet, t \in TextsOfLen(n - 1) }

\* every text of at most n characters
TextsUpTo(n) == UNION { TextsOfLen(m) : m \in 0..n }

\* a tree T to be serialized
InitCodec ==
    /\ cls = "codec"
    /\ tree \in AllTrees
    /\ prev = Nil /\ arg = 0 /\ ndel = 0
    /\ op = "init"
    /\ err = "none"
    /\ text = <<>>
    /\ pos = 0
    /\ out = Nil

\* a token string handed to deserialize
InitText ==
    /\ cls = "text"
    /\ text \in TextsUpTo(MaxText)
    /\ tree = Nil /\ prev = Nil /\ arg = 0 /\ ndel = 0
    /\ op = "init"
    /\ err = "none"
    /\ pos = 0
    /\ out = Nil

\* serialized_tree = serialize(build_tree)
Serialize ==
    /\ cls = "codec" /\ op = "init"
    /\ text' = serialize(tree)
    /\ op' = "serialize"
    /\ UNCHANGED <<cls, tree, prev, arg, err, ndel, pos, out>>

\* deserialized_tree = deserialize(serialized_tree)
Deserialize ==
    /\ cls \in {"codec", "text"}
    /\ op = (IF cls = "codec" THEN "serialize" ELSE "init")
    /\ LET r == deserialize(text) IN
         /\ out' = r.node
         /\ pos' = r.i
         /\ err' = r.err
    /\ op' = "deserialize"
    /\ UNCHANGED <<cls, tree, prev, arg, ndel, text>>

NextCodec == Serialize \/ Deserialize

SpecCodec == InitCodec /\ [][NextCodec]_vars

NextText == Deserialize

SpecText == InitText /\ [][NextText]_vars


(* ----------------- find_value / findValue after inserts ---------------- *)
InitFind == Init /\ cls \in {"BinaryTree", "BST"}

\* root.find_value(k)
FindValue(k) ==
    /\ cls = "BinaryTree" /\ Live
    /\ out' = find_value(tree, k)
    /\ prev' = tree /\ op' = "find_value" /\ arg' = k
    /\ UNCHANGED <<cls, tree, err, ndel, text, pos>>

\* b.findValue(k)
FindValueBST(k) ==
    /\ cls = "BST" /\ Live
    /\ out' = findValue(tree, k)
    /\ prev' = tree /\ op' = "findValue" /\ arg' = k
    /\ UNCHANGED <<cls, tree, err, ndel, text, pos>>

NextFind ==
    \/ \E k \in Keys : InsertData(k)
    \/ \E k \in Keys : InsertVal(k)
    \/ \E k \in Keys : FindValue(k)
    \/ \E k \in Keys : FindValueBST(k)

SpecFind == InitFind /\ [][NextFind]_vars

(* --------------- insert_data(arr) of tree/inorderTravarsal.py ---------- *)
\* root = BinarySearchTreeNode(arr[0])
InitInorder ==
    /\ cls = "BinarySearchTreeNode"
    /\ \E k \in BuildKeys : /\ tree = NewNode(k)
                            /\ arg = k
    /\ prev = Nil
    /\ op = "init"
    /\ err = "none"
    /\ ndel = 0
    /\ text = <<>>
    /\ pos = 0
    /\ out = Nil

\* one pass of `for val in arr[1:]: root.add_child(val)`
InorderInsertStep(val) ==
    /\ cls = "BinarySearchTreeNode"
    /\ Size(tree) < MaxNodes
    /\ tree' = BinarySearchTreeNode_add_child(tree, val)
    /\ prev' = tree /\ op' = "add_child" /\ arg' = val
    /\ UNCHANGED <<cls, err, ndel>> /\ NoCodec

NextInorder == \E val \in BuildKeys : InorderInsertStep(val)

SpecInorder == InitInorder /\ [][NextInorder]_vars


(* ------------------ __main__ of tree/LCAofBST.py ----------------------- *)
\* p = insert_data([a]); q = insert_data([b]);
\* lowestCommonAncestor(root_tree, p, q)
LCA(a, b) ==
    /\ cls = "insert_data"
    /\ LET r == lowestCommonAncestor(tree, NewNode(a), NewNode(b)) IN
         /\ out' = r.ret
         /\ err' = r.err
    /\ prev' = tree /\ op' = "lowestCommonAncestor" /\ arg' = <<a, b>>
    /\ UNCHANGED <<cls, tree, ndel, text, pos>>

\* the script ends with the call
BuildStep(val) == op # "lowestCommonAncestor" /\ InsertDataStep(val)

NextLCA ==
    \/ \E val \in BuildKeys : BuildStep(val)
    \/ BuildStep(Nil)
    \/ \E a, b \in BuildKeys : op # "lowestCommonAncestor" /\ LCA(a, b)

\* root = TreeNode(arr[0]); for val in arr[1:]: root.add_child(val)
RECURSIVE insert_data_loop(_, _, _)
insert_data_loop(root, arr, i) ==
    IF i > Len(arr) THEN root
    ELSE insert_data_loop(TreeNode_add_child(root, arr[i]), arr, i + 1)

insert_data(arr) == insert_data_loop(NewNode(arr[1]), arr, 2)

\* build_tree = insert_data([1,None,2,None,3]) of tree/isBalancedBT.py
isBalanced_build_tree == insert_data(<<1, Nil, 2, Nil, 3>>)

\* root_tree = insert_data([6,2,8,0,4,7,9,3,5])
root_tree == insert_data(<<6, 2, 8, 0, 4, 7, 9, 3, 5>>)

\* the tree of the script, or any tree insert_data builds from BuildKeys
InitLCA ==
    /\ cls = "insert_data"
    /\ \/ \E k \in BuildKeys : tree = NewNode(k) /\ arg = k
       \/ tree = root_tree /\ arg = root_tree[1]
    /\ prev = Nil
    /\ op = "init"
    /\ err = "none"
    /\ ndel = 0
    /\ text = <<>>
    /\ pos = 0
    /\ out = Nil

SpecLCA == InitLCA /\ [][NextLCA]_vars


(* --------------------- queries on any binary tree ---------------------- *)
\* build_tree = insert_data([15,12,20,13,21]) of tree/isValidBST.py
RECURSIVE isValidBST_insert_data_loop(_, _, _)
isValidBST_insert_data_loop(root, arr, i) ==
    IF i > Len(arr) THEN root
    ELSE isValidBST_insert_data_loop(isValidBST_add_child(root, arr[i]), arr, i + 1)

isValidBST_build_tree ==
    isValidBST_insert_data_loop(NewNode(15), <<15, 12, 20, 13, 21>>, 2)

\* build_tree = insert_data([15,12,20,8,13,17,27,7,9,12,14]) of tree/BFS.py
BFS_build_tree == insert_data(<<15, 12, 20, 8, 13, 17, 27, 7, 9, 12, 14>>)

\* build_tree = insert_data([6,7,4,5,3,1]) of tree/binaryTreeRightSideView.py
rightSideView_build_tree == insert_data(<<6, 7, 4, 5, 3, 1>>)

\* x = buildTree([3,9,20,15,7],[9,3,15,20,7])
buildTree_x == buildTree(<<3, 9, 20, 15, 7>>, <<9, 3, 15, 20, 7>>).ret

\* the trees the scripts build
ScriptTrees ==
    {isValidBST_build_tree, BFS_build_tree, rightSideView_build_tree, buildTree_x,
     isBalanced_build_tree}

\* every shape of n nodes; a node's key is the number of nodes below and at it
RECURSIVE ShapesOfSize(_)
ShapesOfSize(n) ==
    IF n = 0 THEN {Nil}
    ELSE UNION { { <<n, l, r>> : l \in ShapesOfSize(m),
                                 r \in ShapesOfSize(n - 1 - m) } : m \in 0..(n - 1) }

AllShapes == UNION { ShapesOfSize(n) : n \in 0..MaxDeep }

\* t with its nodes numbered from base on, left-right-self
RECURSIVE Numbered(_, _)
Numbered(t, base) ==
    IF t = Nil THEN Nil
    ELSE <<base + Size(t) - 1,
           Numbered(t[2], base),
           Numbered(t[3], base + Size(t[2]))>>

\* every shape with pairwise distinct keys
DistinctShapes == { Numbered(t, 1) : t \in AllShapes }

\* a tree of the scripts or any binary tree, built by insert_data or not
InitTree ==
    /\ cls = "tree"
    /\ tree \in AllTrees \cup AllShapes \cup DistinctShapes \cup ScriptTrees
    /\ prev = Nil /\ arg = 0 /\ ndel = 0
    /\ op = "init"
    /\ err = "none"
    /\ text = <<>>
    /\ pos = 0
    /\ out = Nil

\* the result of a call on the tree: the value returned or the exception raised
Call(name, r) ==
    /\ cls = "tree" /\ op = "init"
    /\ op' = name
    /\ out' = r.ret
    /\ err' = r.err
    /\ UNCHANGED <<cls, tree, prev, arg, ndel, text, pos>>

\* print(build_tree.isValid())
IsValid == tree # Nil /\ Call("isValid", isValid(tree))

\* print(build_tree.level_order_traversal([],0))
LevelOrder ==
    /\ tree # Nil
    /\ Call("level_order_traversal", Value(level_order_traversal(tree, <<>>, 0)))

\* print(isBalanced(build_tree))
IsBalanced == Call("isBalanced", Value(isBalanced(tree)))

\* print(diameter_of_tree(build_tree))
DiameterOfTree == Call("diameter_of_tree", Value(diameter_of_tree(tree)))

\* print(goodNode(build_tree))
GoodNode == Call("goodNode", goodNode(tree))

\* print(rightSideView(build_tree, [], 0))
RightSideView == Call("rightSideView", Value(rightSideView(tree, <<>>, 0)))

\* a tree's pre-order list, [] for no tree
PreorderOf(t) == IF t = Nil THEN <<>> ELSE preorder(t)

\* buildTree(preorder, inorder) on the two traversals of the tree
BuildTree == Call("buildTree", buildTree(PreorderOf(tree), printTree(tree)))

NextTree ==
    \/ RightSideView
    \/ BuildTree
    \/ IsValid
    \/ LevelOrder
    \/ IsBalanced
    \/ DiameterOfTree
    \/ GoodNode

SpecTree == InitTree /\ [][NextTree]_vars


(* ------------------------ queries on two trees ------------------------- *)
\* two-tree queries take trees of at most MaxShape nodes with keys of PairKeys
PairKeys == {1, 2}

RECURSIVE PairTreesOfSize(_)
PairTreesOfSize(n) ==
    IF n = 0 THEN {Nil}
    ELSE UNION { { <<k, l, r>> : k \in PairKeys,
                                 l \in PairTreesOfSize(m),
                                 r \in PairTreesOfSize(n - 1 - m) } : m \in 0..(n - 1) }

PairTrees == UNION { PairTreesOfSize(n) : n \in 0..MaxShape }

\* build_tree1, build_tree2 of tree/isSame.py and tree/subtreeOfAnotherTree.py
ScriptPairs ==
    { <<insert_data(<<1, 2, 3>>), insert_data(<<1, 3, 2>>)>>,
      <<insert_data(<<15, 12, 20, 8, 13, 17, 27, 7, 9, 12, 14>>),
        insert_data(<<8, 7, 9>>)>> }

\* tree is the first argument and arg the second
InitPair ==
    /\ cls = "pair"
    /\ \E pair \in (PairTrees \X PairTrees) \cup ScriptPairs :
          /\ tree = pair[1]
          /\ arg = pair[2]
    /\ prev = Nil /\ ndel = 0
    /\ op = "init"
    /\ err = "none"
    /\ text = <<>>
    /\ pos = 0
    /\ out = Nil

\* print(isSameTree(build_tree1, build_tree2))
IsSameTree ==
    /\ cls = "pair" /\ op = "init"
    /\ op' = "isSameTree"
    /\ out' = isSameTree(tree, arg)
    /\ UNCHANGED <<cls, tree, prev, arg, err, ndel, text, pos>>

\* print(is_subtree(build_tree1, build_tree2))
IsSubtree ==
    /\ cls = "pair" /\ op = "init"
    /\ op' = "is_subtree"
    /\ out' = is_subtree(tree, arg)
    /\ UNCHANGED <<cls, tree, prev, arg, err, ndel, text, pos>>

NextPair ==
    \/ IsSameTree
    \/ IsSubtree

SpecPair == InitPair /\ [][NextPair]_vars

(* ------------- the traversals of tree/binarySeachTree.py --------------- *)
\* root = BinaryTree(k)
InitTraverse == Init /\ cls = "BinaryTree"

\* the insertData calls come before the traversals
GrowStep(k) == pos = 0 /\ InsertData(k)

\* a traversal assigns no attribute of any node; text keeps the sequence the
\* call before returned, arg the name of that call, pos the number of calls
Traversal(name, data) ==
    /\ cls = "BinaryTree" /\ Live
    /\ pos < MaxCalls
    /\ out' = data
    /\ text' = out /\ arg' = op /\ pos' = pos + 1
    /\ prev' = tree /\ op' = name
    /\ UNCHANGED <<cls, tree, err, ndel>>

\* root.inorder_traversal(root)
InorderTraversal == Traversal("inorder_traversal", inorder_traversal(tree))

\* root.preorder_traversal(root)
PreorderTraversal == Traversal("preorder_traversal", preorder_traversal(tree))

\* root.postorder_traversal(root)
PostorderTraversal == Traversal("postorder_traversal", postorder_traversal(tree))

NextTraverse ==
    \/ \E k \in Keys : GrowStep(k)
    \/ InorderTraversal
    \/ PreorderTraversal
    \/ PostorderTraversal

SpecTraverse == InitTraverse /\ [][NextTraverse]_vars

(* ---------------- queries on a tree built by insert_data --------------- *)
\* the script builds the tree, then asks
Building == cls = "insert_data" /\ op \in {"init", "add_child"}

GrowBuilt(val) == Building /\ InsertDataStep(val)

\* the value a query on the built tree returns, or the exception it raises
Query(name, a, r) ==
    /\ Building
    /\ op' = name /\ arg' = a
    /\ out' = r.ret
    /\ err' = r.err
    /\ prev' = tree
    /\ UNCHANGED <<cls, tree, ndel, text, pos>>

\* insert_data(build_tree.preorder()) of tree/preorderTraversal.py
Reinsert == Query("preorder", 0, Value(insert_data(preorder(tree))))

\* kThSmallest(build_tree1, k) of tree/kthSmallestElementBST.py
KthSmallest(k) == Query("kThSmallest", k, kThSmallest(tree, k))

\* print(goodNode(build_tree)) of tree/goodNodesBT.py
GoodNodeBuilt == Query("goodNode", 0, goodNode(tree))

NextQuery ==
    \/ \E val \in BuildKeys : GrowBuilt(val)
    \/ GoodNodeBuilt
    \/ Reinsert
    \/ \E k \in 0..(MaxNodes + 1) : KthSmallest(k)

SpecQuery == InitBuild /\ [][NextQuery]_vars

(* ------------------------------ properties ----------------------------- *)
\* seq with every occurrence of k removed
Without(seq, k) == SelectSeq(seq, LAMBDA x : x # k)

Ascending(seq) == \A i \in 1..(Len(seq) - 1) : seq[i] < seq[i + 1]

\* C1: after every insertData / delete_value call of a run whose calls all
\* returned (every delete_value found its key), the BinaryTree satisfies the
\* BST order invariant: left keys < key < right keys at every node.  A
\* delete_value that returns another root than the object it was called on
\* (the root itself deleted, with at most one child) leaves that object as it
\* was, so every tree reached here is also the returned root of the run
\* without that call.
C1_OrderAfterEveryCall ==
    (cls = "BinaryTree" /\ err = "none") => BSTOrder(tree)

\* C5: delete_value(k) and delete_child(k) with k not stored return normally
\* and leave the tree's shape and keys unchanged.
C5_AbsentDeleteIsNoOp ==
    (op \in {"delete_value", "delete_child"} /\ arg \notin KeysOf(prev))
        => (err = "none" /\ tree = prev)

\* C6: on a tree built by insertData alone, delete_value(k) of a stored key k
\* returns a tree (out, None for the empty tree) whose in-order sequence is
\* the previous one without k, still strictly ascending.
C6_DeleteValueRemovesExactlyK ==
    (cls = "BinaryTree" /\ op = "delete_value" /\ ndel = 1 /\ arg \in KeysOf(prev))
        => /\ err = "none"
           /\ inorder_traversal(out) = Without(inorder_traversal(prev), arg)
           /\ Ascending(inorder_traversal(out))
           /\ Len(inorder_traversal(out)) = Len(inorder_traversal(prev)) - 1

\* a first delete_value that removed a two-child node below the root
C6_Witness ==
    /\ cls = "BinaryTree" /\ op = "delete_value" /\ ndel = 1 /\ err = "none"
    /\ prev # Nil /\ prev[2] # Nil
    /\ prev[2][1] = arg /\ prev[2][2] # Nil /\ prev[2][3] # Nil
    /\ arg \notin KeysOf(out)

\* C7: on a tree built by insert_data, delete_child(k) of a stored key k
\* returns normally and the in-order sequence of the returned tree (out) is
\* the previous one without k.
C7_DeleteChildRemovesExactlyK ==
    (cls = "TreeNode" /\ op = "delete_child" /\ ndel = 1 /\ arg \in KeysOf(prev))
        => /\ err = "none"
           /\ inorder_traversal(out) = Without(inorder_traversal(prev), arg)

\* C8: when delete_child raises, the tree reachable from the root object the
\* call was made on is the pre-call tree.
C8_DeleteChildErrorLeavesTree ==
    (cls = "TreeNode" /\ op = "delete_child" /\ ndel = 1 /\ err # "none")
        => tree = prev

\* C9: when delete_value raises, the tree reachable from the root object the
\* call was made on is the pre-call tree.
C9_DeleteValueErrorLeavesTree ==
    (cls = "BinaryTree" /\ op = "delete_value" /\ err # "none") => tree = prev

\* C10: after insertData(k) / insertVal(k) the stored key set is the previous
\* key set plus k.
C10_InsertKeepsEveryKey ==
    (op \in {"insertData", "insertVal"}) => KeysOf(tree) = KeysOf(prev) \cup {arg}

\* C2: after every insertion made by insert_data / add_child the tree is
\* balanced: isBalanced returns True.
C2_BalancedAfterEveryInsert ==
    (cls = "insert_data") => isBalanced(tree)

\* C3: deserialize(serialize(T)) is T, shape and keys, with no error.
C3_RoundTrip ==
    (cls = "codec" /\ op = "deserialize") => (err = "none" /\ out = tree)

\* the round trip of a three-node tree that is not BST-ordered, holds a
\* negative two-digit key and has a left-only and a right-only link
C3_Witness ==
    /\ cls = "codec" /\ op = "deserialize" /\ out = tree
    /\ Size(tree) = MaxShape
    /\ ~BSTOrder(tree)
    /\ (0 - (BigKey + 2)) \in KeysOf(tree)
    /\ tree[2] = Nil /\ tree[3] # Nil /\ tree[3][2] # Nil /\ tree[3][3] = Nil

\* a token list is one complete tree: every token is the sentinel or an
\* integer, and the count of subtrees still to be read first reaches 0 at
\* the last token
RECURSIVE Pending(_, _)
Pending(values, n) ==
    IF n = 0 THEN 1
    ELSE Pending(values, n - 1) + (IF values[n] = <<"N">> THEN -1 ELSE 1)

WellFormed(values) ==
    /\ \A n \in 1..Len(values) : values[n] = <<"N">> \/ IsIntLiteral(values[n])
    /\ Pending(values, Len(values)) = 0
    /\ \A n \in 0..(Len(values) - 1) : Pending(values, n) > 0

\* C4: deserialize raises, and returns no tree, for every token string that
\* is not one complete tree (too few tokens, a bad token, tokens left over).
C4_MalformedIsRejected ==
    (cls = "text" /\ op = "deserialize" /\ ~WellFormed(Split(text, ",")))
        => (err # "none" /\ out = Nil)

Range(seq) == { seq[i] : i \in 1..Len(seq) }

\* C11: find_value(k) / findValue(k) returns True when k is stored at any
\* depth and False when k is not stored.
C11_SearchReturnsBoolean ==
    (op \in {"find_value", "findValue"})
        => out = (IF arg \in KeysOf(tree) THEN "True" ELSE "False")

\* C12: on a tree built by insert_data, add_child(k) of a stored key k leaves
\* serialize(tree) unchanged.
C12_IdempotentInsert ==
    (cls = "insert_data" /\ op = "add_child" /\ ~IsNone(arg) /\ arg \in KeysOf(prev))
        => serialize(tree) = serialize(prev)

\* a stored key below the root is inserted again
C12_Witness ==
    /\ cls = "insert_data" /\ op = "add_child" /\ ~IsNone(arg)
    /\ arg \in KeysOf(prev) /\ arg # prev[1]
    /\ Size(prev) >= 3
    /\ serialize(tree) = serialize(prev)

\* C13: inorder() of a tree built by insert_data is ascending and holds each
\* distinct input key once: it is <<arr[0]>> at first, and each add_child(val)
\* adds val to the keys it lists and keeps it strictly ascending.
C13_InorderSortedDistinct ==
    (cls = "BinarySearchTreeNode")
        => /\ Ascending(inorder(tree))
           /\ op = "init" => inorder(tree) = <<arg>>
           /\ op = "add_child" => Range(inorder(tree)) = Range(inorder(prev)) \cup {arg}

\* a duplicate key was given after keys on both sides of the root
C13_Witness ==
    /\ cls = "BinarySearchTreeNode" /\ op = "add_child"
    /\ arg \in KeysOf(prev)
    /\ tree[2] # Nil /\ tree[3] # Nil
    /\ Len(inorder(tree)) = MaxNodes - 1

\* the key of the deepest node of t whose subtree holds both a and b
RECURSIVE DeepestCommon(_, _, _)
DeepestCommon(t, a, b) ==
    IF {a, b} \subseteq KeysOf(t[2]) THEN DeepestCommon(t[2], a, b)
    ELSE IF {a, b} \subseteq KeysOf(t[3]) THEN DeepestCommon(t[3], a, b)
    ELSE t[1]

\* C14: for p and q both stored in a tree built by insert_data,
\* lowestCommonAncestor returns the key of the deepest node whose subtree
\* holds both, a node being its own ancestor.
C14_LowestCommonAncestor ==
    (op = "lowestCommonAncestor" /\ {arg[1], arg[2]} \subseteq KeysOf(tree))
        => (err = "none" /\ out = DeepestCommon(tree, arg[1], arg[2]))

\* the script: p = 2 is an ancestor of q = 4 below the root, and the answer is 2
C14_Witness ==
    /\ op = "lowestCommonAncestor" /\ err = "none"
    /\ tree = root_tree /\ arg = <<2, 4>> /\ out = 2

\* C15: when p or q is not stored, lowestCommonAncestor signals an error and
\* returns no key.
C15_AbsentOperandIsRejected ==
    (op = "lowestCommonAncestor" /\ ~({arg[1], arg[2]} \subseteq KeysOf(tree)))
        => err # "none"

\* C16: on every non-empty binary tree isValid() returns, without raising,
\* True when the tree is in BST order and False when it is not.
C16_IsValidDecidesOrder ==
    (op = "isValid") => (err = "none" /\ out = BSTOrder(tree))

\* the number of nodes on the longest path from the root of t down to a leaf
RECURSIVE Height(_)
Height(t) ==
    IF t = Nil THEN 0
    ELSE 1 + (IF Height(t[2]) >= Height(t[3]) THEN Height(t[2]) ELSE Height(t[3]))

\* the keys of the nodes of t at depth d, from left to right
RECURSIVE AtDepth(_, _)
AtDepth(t, d) ==
    IF t = Nil THEN <<>>
    ELSE IF d = 0 THEN <<t[1]>>
    ELSE AtDepth(t[2], d - 1) \o AtDepth(t[3], d - 1)

\* C17: level_order_traversal(root, [], 0) returns one list per depth, the
\* list of depth d holding the keys of the nodes at depth d from left to
\* right, the key 0 included.
C17_LevelOrderListsEveryKey ==
    (op = "level_order_traversal")
        => out = [d \in 1..Height(tree) |-> AtDepth(tree, d - 1)]

\* every node of t has subtrees whose depths differ by at most 1
RECURSIVE BalancedEverywhere(_)
BalancedEverywhere(t) ==
    \/ t = Nil
    \/ /\ Height(t[2]) - Height(t[3]) \in {-1, 0, 1}
       /\ BalancedEverywhere(t[2])
       /\ BalancedEverywhere(t[3])

\* C18: isBalanced(root) is True exactly when every node's two subtrees
\* differ in depth by at most 1, an absent subtree having depth 0.
C18_IsBalancedLooksAtEveryNode ==
    (op = "isBalanced") => out = BalancedEverywhere(tree)

\* the root's subtrees are equally deep and one of them is unbalanced
C18_Witness ==
    /\ op = "isBalanced" /\ tree # Nil
    /\ Height(tree[2]) = Height(tree[3])
    /\ ~BalancedEverywhere(tree)
    /\ out = FALSE

\* the nodes of t, each named by the path from the root: 2 is left, 3 is right
RECURSIVE Positions(_)
Positions(t) ==
    IF t = Nil THEN {}
    ELSE {<<>>} \cup { <<2>> \o p : p \in Positions(t[2]) }
                \cup { <<3>> \o p : p \in Positions(t[3]) }

\* the subtree of t at position p
RECURSIVE Sub(_, _)
Sub(t, p) == IF p = <<>> THEN t ELSE Sub(t[p[1]], Tail(p))

\* the length of the longest common prefix of two positions
RECURSIVE CommonLen(_, _)
CommonLen(a, b) ==
    IF a = <<>> \/ b = <<>> THEN 0
    ELSE IF a[1] # b[1] THEN 0
    ELSE 1 + CommonLen(Tail(a), Tail(b))

\* the number of edges on the path between two nodes
Dist(a, b) == Len(a) + Len(b) - 2 * CommonLen(a, b)

Greatest(S) == CHOOSE m \in S : \A x \in S : x <= m

LongestPath(t) ==
    IF t = Nil THEN 0
    ELSE Greatest({ Dist(a, b) : a, b \in Positions(t) })

DeepestFork(t) ==
    IF t = Nil THEN 0
    ELSE Greatest({ Height(Sub(t, p)[2]) + Height(Sub(t, p)[3]) : p \in Positions(t) })

\* C19: diameter_of_tree(root) is the greatest number of edges on a path
\* between two nodes, which is the greatest depth(left) + depth(right) over
\* the nodes, and is 0 for the empty tree and for a single node.
C19_DiameterIsLongestPath ==
    (op = "diameter_of_tree")
        => /\ out = LongestPath(tree)
           /\ out = DeepestFork(tree)
           /\ Size(tree) <= 1 => out = 0

\* the longest path does not pass through the root
C19_Witness ==
    /\ op = "diameter_of_tree" /\ tree # Nil
    /\ out = LongestPath(tree)
    /\ out > Height(tree[2]) + Height(tree[3])

\* the nodes of t whose key is >= every key on the path from the root to them
GoodPositions(t) ==
    { p \in Positions(t) :
        \A i \in 0..Len(p) : Sub(t, SubSeq(p, 1, i))[1] <= Sub(t, p)[1] }

\* C20: on every non-empty tree goodNode(root) is the number of nodes whose
\* key is greater than or equal to every key on the path from the root.
C20_GoodNodeCount ==
    (op = "goodNode" /\ tree # Nil)
        => (err = "none" /\ out = Cardinality(GoodPositions(tree)))

\* a grandchild of the root that is >= its parent and smaller than the root
C20_Witness ==
    /\ op = "goodNode" /\ tree # Nil /\ err = "none"
    /\ \E p \in Positions(tree) :
          /\ Len(p) = 2
          /\ Sub(tree, p)[1] >= Sub(tree, <<p[1]>>)[1]
          /\ Sub(tree, p)[1] < tree[1]
    /\ out = Cardinality(GoodPositions(tree))
    /\ out < Size(tree)

\* p and q have nodes at the same positions, holding the same keys
SameShapeAndKeys(p, q) ==
    /\ Positions(p) = Positions(q)
    /\ \A x \in Positions(p) : Sub(p, x)[1] = Sub(q, x)[1]

\* q lies over p from p's root on, p possibly reaching further down
RECURSIVE Covers(_, _)
Covers(p, q) ==
    \/ q = Nil
    \/ /\ p # Nil
       /\ p[1] = q[1]
       /\ Covers(p[2], q[2])
       /\ Covers(p[3], q[3])

\* C21: is_subtree(root, candidate) is True exactly when the candidate is
\* absent or is identical in shape and keys to the complete subtree at some
\* node of root; isSameTree(p, q) is True exactly for identical shape and keys.
C21_SubtreeIsWholeSubtree ==
    /\ (op = "is_subtree")
          => out = (\/ arg = Nil
                    \/ \E x \in Positions(tree) : SameShapeAndKeys(Sub(tree, x), arg))
    /\ (op = "isSameTree") => out = SameShapeAndKeys(tree, arg)

\* the candidate matches a node and part of its descendants only
C21_Witness ==
    /\ op = "is_subtree" /\ arg # Nil
    /\ \E x \in Positions(tree) : Covers(Sub(tree, x), arg)
    /\ out = FALSE

\* C22: rightSideView(root, [], 0) returns one key per depth, the key at
\* index d being that of the rightmost node at depth d.
C22_RightSideViewIsRightmost ==
    (op = "rightSideView")
        => out = [d \in 1..Height(tree) |->
                     AtDepth(tree, d - 1)[Len(AtDepth(tree, d - 1))]]

\* the left subtree reaches deeper than the right one, which is not empty
C22_Witness ==
    /\ op = "rightSideView" /\ tree # Nil
    /\ tree[3] # Nil
    /\ Height(tree[2]) > Height(tree[3])
    /\ Len(out) = Height(tree)
    /\ out[Len(out)] = AtDepth(tree[2], Len(out) - 2)[Len(AtDepth(tree[2], Len(out) - 2))]

\* position a comes before position b when read left-self-right
BeforeIn(a, b) ==
    LET c == CommonLen(a, b) IN
    IF Len(a) = c THEN Len(b) > c /\ b[c + 1] = 3
    ELSE IF Len(b) = c THEN a[c + 1] = 2
    ELSE a[c + 1] = 2

\* self-left-right: an ancestor comes first
BeforePre(a, b) ==
    LET c == CommonLen(a, b) IN
    IF Len(a) = c THEN Len(b) > c
    ELSE IF Len(b) = c THEN FALSE
    ELSE a[c + 1] = 2

\* left-right-self: an ancestor comes last
BeforePost(a, b) ==
    LET c == CommonLen(a, b) IN
    IF Len(a) = c THEN FALSE
    ELSE IF Len(b) = c THEN TRUE
    ELSE a[c + 1] = 2

\* the keys of t, one per node, in the order Before gives to the positions
Listed(t, Before(_, _)) ==
    [i \in 1..Size(t) |->
        Sub(t, CHOOSE p \in Positions(t) :
                 Cardinality({q \in Positions(t) : Before(q, p)}) = i - 1)[1]]

TraversalNames == {"inorder_traversal", "preorder_traversal", "postorder_traversal"}

\* C23: a traversal leaves the tree as it was, returns the keys
\* left-self-right, self-left-right or left-right-self, and returns the same
\* sequence when the same traversal is called again.
C23_TraversalsReadOnlyRepeatable ==
    (op \in TraversalNames)
        => /\ tree = prev
           /\ op = "inorder_traversal" => out = Listed(tree, BeforeIn)
           /\ op = "preorder_traversal" => out = Listed(tree, BeforePre)
           /\ op = "postorder_traversal" => out = Listed(tree, BeforePost)
           /\ (pos >= 2 /\ arg = op) => out = text

\* the same traversal called twice on a tree where the three orders differ
C23_Witness ==
    /\ op = "postorder_traversal" /\ pos >= 2 /\ arg = op
    /\ out = text /\ tree = prev
    /\ tree[2] # Nil /\ tree[3] # Nil
    /\ out # inorder_traversal(tree)
    /\ out # preorder_traversal(tree)

Least(S) == CHOOSE m \in S : \A x \in S : m <= x

\* C24: on every non-empty tree reached by insertData and delete_value
\* calls, find_min() is the smallest stored key and find_max() the largest.
C24_FindMinMaxAreExtremes ==
    (cls = "BinaryTree" /\ Live)
        => /\ find_min(tree) = Least(KeysOf(tree))
           /\ find_max(tree) = Greatest(KeysOf(tree))

\* C25: add_child of a key not yet stored attaches one new leaf holding it;
\* every node of the old tree keeps its position, its key and its children,
\* so the old tree is the new tree without that leaf.
C25_AddChildAttachesOneLeaf ==
    (cls = "insert_data" /\ op = "add_child" /\ ~IsNone(arg) /\ arg \notin KeysOf(prev))
        => \E leaf \in Positions(tree) :
              /\ Sub(tree, leaf) = NewNode(arg)
              /\ Positions(prev) = Positions(tree) \ {leaf}
              /\ \A x \in Positions(prev) : Sub(prev, x)[1] = Sub(tree, x)[1]

\* a new key goes two links below the root of a tree that has both subtrees
C25_Witness ==
    /\ cls = "insert_data" /\ op = "add_child" /\ ~IsNone(arg) /\ arg \notin KeysOf(prev)
    /\ prev[2] # Nil /\ prev[3] # Nil
    /\ Size(tree) = Size(prev) + 1
    /\ \E leaf \in Positions(tree) : Len(leaf) >= 2 /\ Sub(tree, leaf) = NewNode(arg)

\* no key is stored twice in t
DistinctKeys(t) == Cardinality(KeysOf(t)) = Size(t)

\* C26: for every tree T with pairwise distinct keys,
\* buildTree(preorder(T), inorder(T)) has T's shape and keys, hence T's
\* in-order and pre-order sequences.
C26_BuildTreeReconstructs ==
    (op = "buildTree" /\ DistinctKeys(tree))
        => /\ err = "none"
           /\ SameShapeAndKeys(out, tree)
           /\ printTree(out) = printTree(tree)
           /\ PreorderOf(out) = PreorderOf(tree)

\* a tree of distinct keys that is not a BST, both subtrees of the root forked
C26_Witness ==
    /\ op = "buildTree" /\ DistinctKeys(tree) /\ ~BSTOrder(tree)
    /\ Size(tree) >= 5 /\ tree[2] # Nil /\ tree[3] # Nil
    /\ err = "none" /\ out = tree

\* C27: for every tree T built by insert_data, insert_data(T.preorder())
\* has the shape and keys of T.
C27_PreorderIsFingerprint ==
    (op = "preorder") => SameShapeAndKeys(out, tree)

\* a built tree with both subtrees whose pre-order list is not ascending
C27_Witness ==
    /\ op = "preorder" /\ out = tree
    /\ tree[2] # Nil /\ tree[3] # Nil /\ Size(tree) >= 4
    /\ ~Ascending(preorder(tree))

\* C28: for a tree of n nodes serialize emits 2n+1 comma-separated tokens,
\* n+1 of them the sentinel N, and deserialize of that output ends with its
\* index i equal to the number of tokens.
C28_TokenCounts ==
    (cls = "codec" /\ op \in {"serialize", "deserialize"})
        => LET values == Split(text, ",") IN
           /\ Len(values) = 2 * Size(tree) + 1
           /\ Cardinality({ i \in 1..Len(values) : values[i] = <<"N">> }) = Size(tree) + 1
           /\ op = "deserialize" => pos = Len(values)

\* a tree of at least three nodes holding a negative key, wholly read back
C28_Witness ==
    /\ cls = "codec" /\ op = "deserialize" /\ err = "none"
    /\ Size(tree) >= 3
    /\ \E k \in KeysOf(tree) : k < 0
    /\ pos = 2 * Size(tree) + 1
    /\ pos = Len(Split(text, ","))

\* C29: for a tree built by insert_data and 1 <= k <= number of stored keys,
\* kThSmallest(root, k) is the stored key with exactly k-1 smaller stored keys.
C29_KthSmallest ==
    (op = "kThSmallest" /\ arg >= 1 /\ arg <= Size(tree))
        => /\ err = "none"
           /\ out \in KeysOf(tree)
           /\ Cardinality({ x \in KeysOf(tree) : x < out }) = arg - 1

\* the script's k = 3 on a tree with both subtrees where it is not the root
C29_Witness ==
    /\ op = "kThSmallest" /\ arg = 3 /\ err = "none"
    /\ Size(tree) >= 4 /\ tree[2] # Nil /\ tree[3] # Nil
    /\ out # tree[1]
    /\ Cardinality({ x \in KeysOf(tree) : x < out }) = 2

\* the number of nodes reached from the root of t by right links only
RECURSIVE RightSpine(_)
RightSpine(t) == IF t = Nil THEN 0 ELSE 1 + RightSpine(t[3])

\* C30: on a tree built by insert_data, goodNode(root) is the number of
\* nodes on the right spine; no node reached through a left link counts.
C30_GoodNodesAreRightSpine ==
    (cls = "insert_data" /\ op = "goodNode")
        => (err = "none" /\ out = RightSpine(tree))

\* a right child of a left child, and a left child below the right spine
C30_Witness ==
    /\ cls = "insert_data" /\ op = "goodNode" /\ err = "none"
    /\ tree[2] # Nil /\ tree[2][3] # Nil
    /\ tree[3] # Nil /\ tree[3][2] # Nil
    /\ out = 2

====
